---- MODULE Spec2Model ----
(***************************************************************************)
(* State-machine model of covid19/models.py (StateSpreadsheet and its      *)
(* query set) and covid19/stats.py (Covid19Stats._get_latest_cases).       *)
(*                                                                         *)
(* The persisted rows of covid19_statespreadsheet are the sequence subs:   *)
(* a row's primary key is its index, and rows are created in index order,  *)
(* so "-created_at" is descending index order.                             *)
(***************************************************************************)
EXTENDS Integers, Sequences, FiniteSets, TLC

VARIABLES
    subs,       \* the StateSpreadsheet table: pk -> row
    last,       \* the last operation called and how it ended
    imported,   \* pks on which import_to_final_dataset has run to its end
    pub,        \* an import_to_final_dataset call in flight (SpecImportSteps)
    cmp,        \* the two spreadsheets handed to compare_to_spreadsheet (SpecCompare)
    cmpOut,     \* its results, both ways round
    casos,      \* the rows of the caso table, in iteration order (SpecStats)
    query,      \* the arguments of _get_latest_cases
    latest,     \* its result
    queue,      \* pks whose process_new_spreadsheet_task is enqueued (SpecTask)
    task,       \* the task the last step ran: its calls and notifications
    uploads,    \* uploads between their cancel_older_versions and their INSERT
    rec,        \* a link_to_matching_spreadsheet_peer call in flight (SpecLinkSteps)
    state_cases, \* the is_last rows of place_type "state": state -> row (SpecRates)
    rate_row         \* what the last country_row or state_row call returned

vars == <<subs, last, imported, pub, cmp, cmpOut, casos, query, latest,
          queue, task, uploads, rec, state_cases, rate_row>>

----------------------------------------------------------------------------
(* Bounds of the model *)

MaxSubs == 3

----------------------------------------------------------------------------
(* Program constants *)

UPLOADED == 1
CHECK_FAILED == 2
DEPLOYED == 3

\* NULL of a nullable column (peer_review_id, city_ibge_code), the pk of an
\* instance that was never saved
None == 0

\* entry["city"] of the state-level row ("Total" when displayed)
NoCity == "None"

Users == {"ana", "bia", "caio"}

\* The (state, date) pairs uploaded for in the workflow specifications
Keys == {<<"SP", 1>>, <<"SP", 2>>}

----------------------------------------------------------------------------
(* Table rows: data["table"] *)

Row(place_type, city, code, confirmed, deaths) ==
    [place_type |-> place_type, city |-> city, city_ibge_code |-> code,
     confirmed |-> confirmed, deaths |-> deaths]

\* what get_data_from_city / get_total_data return when no row is found
NoRow == Row("none", NoCity, None, 0, 0)

RECURSIVE SetToSeq(_)
\* the iteration order of a Python set: unspecified, fixed per set
SetToSeq(S) ==
    IF S = {} THEN <<>>
    ELSE LET x == CHOOSE y \in S : TRUE
         IN  <<x>> \o SetToSeq(S \ {x})

table_data_by_city(table) ==
    {table[i].city : i \in {j \in DOMAIN table : table[j].place_type = "city"}}

First(rows) == IF rows = <<>> THEN NoRow ELSE rows[1]

get_data_from_city(table, ibge_code) ==
    First(SelectSeq(table, LAMBDA d : d.city_ibge_code = ibge_code))

get_total_data(table) ==
    First(SelectSeq(table, LAMBDA d : d.place_type = "state"))

MatchNoDeaths(e1, e2) ==
    /\ e2 # NoRow
    /\ e1.confirmed = e2.confirmed

match(e1, e2) ==
    /\ e2 # NoRow
    /\ e1.deaths = e2.deaths
    /\ e1.confirmed = e2.confirmed

\* One error message of compare_to_spreadsheet, by what it says
Err(kind, city, user, other_user, other_len, self_len) ==
    [kind |-> kind, city |-> city, user |-> user, other_user |-> other_user,
     other_len |-> other_len, self_len |-> self_len]

DateError == Err("dates_differ", NoCity, "", "", 0, 0)
StateError == Err("states_differ", NoCity, "", "", 0, 0)
ExtraSelfError(city, user, other_user) == Err("only_in_imported", city, user, other_user, 0, 0)
ExtraOtherError(city, user, other_user) == Err("only_in_comparison", city, user, other_user, 0, 0)
CountError(user, other_user, other_len, self_len) ==
    Err("entries_differ", NoCity, user, other_user, other_len, self_len)
ValueError(display) == Err("values_differ", display, "", "", 0, 0)

Display(entry) == IF entry.city = NoCity THEN "Total" ELSE entry.city

OtherEntry(entry, other) ==
    IF entry.place_type = "state"
    THEN get_total_data(other.table)
    ELSE get_data_from_city(other.table, entry.city_ibge_code)

RECURSIVE ValueErrorsOfEveryRow(_, _, _, _)
ValueErrorsOfEveryRow(self, other, extra_self_cities, i) ==
    IF i > Len(self.table) THEN <<>>
    ELSE LET entry == self.table[i]
             here  == IF ~match(entry, OtherEntry(entry, other))
                      THEN <<ValueError(Display(entry))>>
                      ELSE <<>>
         IN  here \o ValueErrorsOfEveryRow(self, other, extra_self_cities, i + 1)

RECURSIVE ValueErrors(_, _, _, _)
\* the loop of lines 211-219 from row i on
ValueErrors(self, other, extra_self_cities, i) ==
    IF i > Len(self.table) THEN <<>>
    ELSE LET entry == self.table[i]
             here  == IF entry.city \notin extra_self_cities
                         /\ ~match(entry, OtherEntry(entry, other))
                      THEN <<ValueError(Display(entry))>>
                      ELSE <<>>
         IN  here \o ValueErrors(self, other, extra_self_cities, i + 1)

compare_to_spreadsheet(self, other) ==
    LET head == (IF self.date # other.date THEN <<DateError>> ELSE <<>>)
                \o (IF self.state # other.state THEN <<StateError>> ELSE <<>>)
    IN  IF head # <<>> THEN head
        ELSE
        LET user == self.user
            other_user == other.user
            self_cities == table_data_by_city(self.table)
            other_cities == table_data_by_city(other.table)
            extra_self_cities == self_cities \ other_cities
            extra_other_cities == other_cities \ self_cities
            es == SetToSeq(extra_self_cities)
            eo == SetToSeq(extra_other_cities)
            set_errors ==
                [i \in 1..Len(es) |-> ExtraSelfError(es[i], user, other_user)]
                \o [i \in 1..Len(eo) |-> ExtraOtherError(eo[i], user, other_user)]
            self_len == Len(self.table)
            other_len == Len(other.table)
            len_errors ==
                IF set_errors = <<>> /\ self_len # other_len
                THEN <<CountError(user, other_user, other_len, self_len)>>
                ELSE <<>>
        IN  set_errors \o len_errors \o ValueErrors(self, other, extra_self_cities, 1)

----------------------------------------------------------------------------
(* The rows of StateSpreadsheet *)

\* The tables uploaded in the workflow specifications
TableOne == <<Row("state", NoCity, 35, 3, 1), Row("city", "Santos", 1, 3, 1)>>
TableTwo == <<Row("state", NoCity, 35, 4, 1), Row("city", "Santos", 1, 4, 1)>>
WorkflowTables == {TableOne, TableTwo}

\* A new, unsaved instance with the field defaults
NewSpreadsheet(user, state, date, table) ==
    [id |-> None, user |-> user, state |-> state, date |-> date,
     status |-> UPLOADED, cancelled |-> FALSE, peer_review |-> None,
     errors |-> <<>>, table |-> table]

Ids(db) == DOMAIN db

FilterOlderVersionsAnyDate(db, spreadsheet) ==
    {i \in Ids(db) :
        /\ db[i].user = spreadsheet.user
        /\ db[i].state = spreadsheet.state
        /\ (spreadsheet.id # None => i # spreadsheet.id)}

filter_older_versions(db, spreadsheet) ==
    {i \in Ids(db) :
        /\ db[i].user = spreadsheet.user
        /\ db[i].state = spreadsheet.state
        /\ db[i].date = spreadsheet.date
        /\ (spreadsheet.id # None => i # spreadsheet.id)}

cancel_older_versions(db, spreadsheet) ==
    LET older == filter_older_versions(db, spreadsheet)
    IN  [i \in Ids(db) |-> IF i \in older THEN [db[i] EXCEPT !.cancelled = TRUE] ELSE db[i]]

\* INSERT of a new row: the pk is the next index
Insert(db, spreadsheet) ==
    Append(db, [spreadsheet EXCEPT !.id = Len(db) + 1])

\* peer_review is a OneToOneField: the column is UNIQUE, NULLs apart
UniqueViolation(db, obj) ==
    /\ obj.peer_review # None
    /\ \E j \in Ids(db) : j # obj.id /\ db[j].peer_review = obj.peer_review

\* Model.save() of an existing row writes every field of the instance
Save(db, obj) == [db EXCEPT ![obj.id] = obj]

\* the errors setter
SetErrors(obj, data) == [obj EXCEPT !.errors = data, !.status = CHECK_FAILED]

LinkedKeepErrors(obj, other_id) ==
    [obj EXCEPT !.peer_review = other_id, !.status = UPLOADED]

\* the in-memory part of link_to, before its save()
Linked(obj, other_id) ==
    [SetErrors([obj EXCEPT !.peer_review = other_id], <<>>) EXCEPT !.status = UPLOADED]

RECURSIVE Descending(_)
\* the pks of a set of rows ordered by "-created_at"
Descending(S) ==
    IF S = {} THEN <<>>
    ELSE LET m == CHOOSE x \in S : \A y \in S : y <= x
         IN  <<m>> \o Descending(S \ {m})

FilterActiveAll(db, S) == S
filter_active(db, S) == {i \in S : ~db[i].cancelled}
PendingReviewAnyStatus(db, S) == S
pending_review(db, S) == {i \in S : db[i].status \in {UPLOADED, CHECK_FAILED}}

\* exclude(pk=self.pk, user_id=self.user_id) drops the rows that match both
sibilings(db, self) ==
    LET qs == {i \in filter_active(db, Ids(db)) :
                  db[i].state = self.state /\ db[i].date = self.date}
    IN  Descending({i \in pending_review(db, qs) :
                       ~(i = self.id /\ db[i].user = self.user)})

ReadyToImportNoStatus(obj) ==
    /\ ~obj.cancelled
    /\ obj.peer_review # None

ready_to_import(obj) ==
    /\ obj.status = UPLOADED
    /\ ~obj.cancelled
    /\ obj.peer_review # None

----------------------------------------------------------------------------
(* link_to_matching_spreadsheet_peer *)

Outcome(db, outcome, errors) == [db |-> db, outcome |-> outcome, errors |-> errors]

RECURSIVE LinkLoopFirstErrors(_, _, _, _, _)
LinkLoopFirstErrors(db, self, sibs, i, errors) ==
    IF i > Len(sibs) THEN [db |-> db, outcome |-> "mismatched", errors |-> errors]
    ELSE
    LET sib  == sibs[i]
        errs == compare_to_spreadsheet(self, sib)
        kept == IF errors = <<>> THEN errs ELSE errors
    IN  IF errs = <<>>
        THEN LET self1 == Linked(self, sib.id)
                 sib1  == Linked(sib, self.id)
             IN  IF UniqueViolation(db, self1)
                 THEN [db |-> db, outcome |-> "IntegrityError", errors |-> <<>>]
                 ELSE IF UniqueViolation(Save(db, self1), sib1)
                 THEN [db |-> Save(db, self1), outcome |-> "IntegrityError", errors |-> <<>>]
                 ELSE [db |-> Save(Save(db, self1), sib1), outcome |-> "matched", errors |-> <<>>]
        ELSE LET sib1  == SetErrors(sib, errs)
                 self1 == SetErrors(self, kept)
             IN  LinkLoopFirstErrors(Save(Save(db, sib1), self1), self1, sibs, i + 1, kept)

RECURSIVE LinkLoop(_, _, _, _, _)
\* The loop of lines 235-247 from candidate i on. self is the instance the
\* method runs on, sibs the instances the query set loaded; every save() is
\* its own statement, so a save that raises leaves the earlier ones persisted.
LinkLoop(db, self, sibs, i, errors) ==
    IF i > Len(sibs) THEN Outcome(db, "mismatched", errors)
    ELSE
    LET sib  == sibs[i]
        errs == compare_to_spreadsheet(self, sib)
    IN  IF errs = <<>>
        THEN LET self1 == Linked(self, sib.id)
                 sib1  == Linked(sib, self.id)
             IN  IF UniqueViolation(db, self1)
                 THEN Outcome(db, "IntegrityError", <<>>)
                 ELSE IF UniqueViolation(Save(db, self1), sib1)
                 THEN Outcome(Save(db, self1), "IntegrityError", <<>>)
                 ELSE Outcome(Save(Save(db, self1), sib1), "matched", <<>>)
        ELSE LET sib1  == SetErrors(sib, errs)
                 self1 == SetErrors(self, errs)
             IN  LinkLoop(Save(Save(db, sib1), self1), self1, sibs, i + 1, errs)

link_to_matching_spreadsheet_peer(db, self) ==
    LET ids  == sibilings(db, self)
        sibs == [i \in 1..Len(ids) |-> db[ids[i]]]
    IN  IF ids = <<>>
        THEN Outcome(db, "OnlyOneSpreadsheetException", <<>>)
        ELSE LinkLoop(db, self, sibs, 1, <<>>)

----------------------------------------------------------------------------
(* import_to_final_dataset *)

Deployed(obj) == [obj EXCEPT !.status = DEPLOYED]

\* lines 260-263 run to their end on the instances loaded at lines 256-257
import_to_final_dataset(db, id) ==
    LET self == db[id]
    IN  IF ~ready_to_import(self)
        THEN Outcome(db, "ValueError", <<>>)
        ELSE LET peer == db[self.peer_review]
             IN  Outcome(Save(Save(db, Deployed(self)), Deployed(peer)), "ok", <<>>)

----------------------------------------------------------------------------
(* The operations on the spreadsheets, each run to its end *)

Called(op, id, result) == [op |-> op, id |-> id, result |-> result]

NoObj == NewSpreadsheet("", "", 0, <<>>)
\* No import_to_final_dataset call is in flight. Of a call in flight: where it
\* is, the instances it holds, the two pks it is to write and those written
Idle == [pc |-> "idle", id |-> None, self |-> NoObj, peer |-> NoObj,
         pair |-> {}, saved |-> {}]

\* No task was run by the last step
NoTask == [id |-> None, calls |-> <<>>, sent |-> <<>>]
\* No link_to_matching_spreadsheet_peer call is in flight. Of a call in
\* flight: where it is, the instance it runs on, the instances of the query
\* set, the index of the one at hand and the errors of the last comparison
NoLink == [pc |-> "idle", self |-> NoObj, sibs |-> <<>>, i |-> 0, errors |-> <<>>]

RateVars == <<state_cases, rate_row>>
PureVars == <<cmp, cmpOut, casos, query, latest, RateVars>>
StepVars == <<queue, task, uploads, rec>>
OtherVars == <<PureVars, StepVars>>

\* The rows after a new upload: the older versions are cancelled, then the
\* row is inserted
Registered(db, user, state, date, table) ==
    LET new == NewSpreadsheet(user, state, date, table)
    IN  Insert(cancel_older_versions(db, new), new)

Upload(user, state, date, table) ==
    /\ Len(subs) < MaxSubs
    /\ subs' = Registered(subs, user, state, date, table)

Register(user, state, date, table) ==
    /\ Upload(user, state, date, table)
    /\ last' = Called("register", Len(subs) + 1, "ok")
    /\ UNCHANGED <<imported, pub, OtherVars>>

Reconcile(s) ==
    LET r == link_to_matching_spreadsheet_peer(subs, subs[s])
    IN  /\ subs' = r.db
        /\ last' = Called("reconcile", s, r.outcome)
        /\ UNCHANGED <<imported, pub, OtherVars>>

Publish(s) ==
    LET r == import_to_final_dataset(subs, s)
    IN  /\ subs' = r.db
        /\ last' = Called("publish", s, r.outcome)
        /\ imported' = IF r.outcome = "ok" THEN imported \cup {s} ELSE imported
        /\ UNCHANGED <<pub, OtherVars>>

----------------------------------------------------------------------------
(* import_to_final_dataset statement by statement: each save() is its own  *)
(* database statement (no transaction is opened around them), so other     *)
(* requests run between them and a failure leaves the earlier ones         *)
(* persisted                                                               *)

\* lines 256-258: refresh_from_db, then ready_to_import, which loads the peer
PublishRefresh(s) ==
    /\ pub.pc \in {"idle", "done", "failed"}
    /\ IF ready_to_import(subs[s])
       THEN /\ pub' = [pc |-> "checked", id |-> s, self |-> subs[s],
                       peer |-> subs[subs[s].peer_review],
                       pair |-> {s, subs[s].peer_review}, saved |-> {}]
            /\ UNCHANGED last
       ELSE /\ pub' = Idle
            /\ last' = Called("publish", s, "ValueError")
    /\ UNCHANGED <<subs, imported, OtherVars>>

\* lines 260-261
PublishSaveSelf ==
    /\ pub.pc = "checked"
    /\ subs' = Save(subs, Deployed(pub.self))
    /\ pub' = [pub EXCEPT !.pc = "self_saved", !.saved = {pub.id}]
    /\ UNCHANGED <<last, imported, OtherVars>>

\* lines 262-266
PublishSavePeer ==
    /\ pub.pc = "self_saved"
    /\ subs' = Save(subs, Deployed(pub.peer))
    /\ pub' = [pub EXCEPT !.pc = "done", !.saved = pub.saved \cup {pub.peer.id},
                           !.self = NoObj, !.peer = NoObj]
    /\ last' = Called("publish", pub.id, "ok")
    /\ imported' = imported \cup {pub.id}
    /\ UNCHANGED OtherVars

\* The call ends before its next statement: the worker is stopped, or the
\* database raises on the statement
PublishFail ==
    /\ pub.pc \in {"checked", "self_saved"}
    /\ pub' = [pub EXCEPT !.pc = "failed", !.self = NoObj, !.peer = NoObj]
    /\ last' = Called("publish", pub.id, "StorageError")
    /\ UNCHANGED <<subs, imported, OtherVars>>

\* A quotient of two integers, as computed by "/": kept exact
Frac(num, den) == [num |-> num, den |-> den]

\* What country_row or state_row returned: the row, or the exception raised
RateRow(op, state, returns, confirmed_per_100k, death_rate, deaths_per_100k) ==
    [op |-> op, state |-> state, returns |-> returns,
     confirmed_per_100k_inhabitants |-> confirmed_per_100k,
     death_rate_percent |-> death_rate,
     deaths_per_100k_inhabitants |-> deaths_per_100k]

Raised(op, state, exception) ==
    RateRow(op, state, exception, Frac(0, 1), Frac(0, 1), Frac(0, 1))

NoRateRow == Raised("none", "", "none")

\* No state-level rows, no call
InitNoRates ==
    /\ state_cases = <<>>
    /\ rate_row = NoRateRow

NoCompare == [self |-> NoObj, other |-> NoObj]
NoQuery == [state |-> "", date |-> 0, place_type |-> ""]
NoResult == [returns |-> "none", rows |-> <<>>]

InitWorkflow ==
    /\ subs = <<>>
    /\ last = Called("none", None, "none")
    /\ imported = {}
    /\ pub = Idle
    /\ queue = {}
    /\ task = NoTask
    /\ uploads = <<>>
    /\ rec = NoLink

Init ==
    /\ InitWorkflow
    /\ cmp = NoCompare
    /\ cmpOut = <<>>
    /\ casos = <<>>
    /\ query = NoQuery
    /\ latest = NoResult
    /\ InitNoRates

----------------------------------------------------------------------------
(* compare_to_spreadsheet on its own *)

\* The tables compared: as the validator yields them, with at most one
\* state-level row, at most one row of undefined cases (a city row without
\* city_ibge_code) and at most one row per city, each optional; the default
\* table of a spreadsheet is the empty one.
CountPairs == {<<1, 0>>, <<2, 0>>, <<1, 1>>}
Optional(place_type, city, code, pairs) ==
    {<<>>} \cup {<<Row(place_type, city, code, c[1], c[2])>> : c \in pairs}
CompareTables ==
    {a \o b \o c \o d :
        a \in Optional("state", NoCity, 35, CountPairs),
        b \in Optional("city", "Importados/Indefinidos", None, CountPairs),
        c \in Optional("city", "Santos", 1, CountPairs),
        d \in Optional("city", "Campinas", 2, CountPairs)}

InitCompare ==
    /\ \E t1 \in CompareTables, t2 \in CompareTables, st \in {"SP", "RJ"}, d \in {1, 2} :
          cmp = [self  |-> [NewSpreadsheet("ana", "SP", 1, t1) EXCEPT !.id = 1],
                 other |-> [NewSpreadsheet("bia", st, d, t2) EXCEPT !.id = 2]]
    /\ cmpOut = <<>>
    /\ InitWorkflow
    /\ casos = <<>>
    /\ query = NoQuery
    /\ latest = NoResult
    /\ InitNoRates

\* the comparison, run both ways round
Compare ==
    /\ cmpOut = <<>>
    /\ cmpOut' = <<compare_to_spreadsheet(cmp.self, cmp.other),
                   compare_to_spreadsheet(cmp.other, cmp.self)>>
    /\ UNCHANGED <<subs, last, imported, pub, cmp, casos, query, latest, StepVars, RateVars>>

NextCompare == Compare

SpecCompare == InitCompare /\ [][NextCompare]_vars

----------------------------------------------------------------------------
(* Covid19Stats._get_latest_cases *)

MaxCasos == 3

Caso(state, date, place_type, city, order_for_place) ==
    [state |-> state, date |-> date, place_type |-> place_type, city |-> city,
     order_for_place |-> order_for_place]

\* The order of Python on the strings of the model
Rank(str) ==
    CASE str = "Campinas" -> 1
      [] str = "Santos" -> 2
      [] str = "RJ" -> 1
      [] str = "SP" -> 2
      [] str = "city" -> 1
      [] str = "state" -> 2
      [] OTHER -> 0

place_key_func(row) == <<Rank(row.place_type), Rank(row.state), Rank(row.city)>>

\* a <= b on tuples of three
TupleLeq(a, b) ==
    \/ a[1] < b[1]
    \/ a[1] = b[1] /\ a[2] < b[2]
    \/ a[1] = b[1] /\ a[2] = b[2] /\ a[3] <= b[3]

InsertAt(seq, k, x) == SubSeq(seq, 1, k) \o <<x>> \o SubSeq(seq, k + 1, Len(seq))

RECURSIVE SortedByPlace(_)
\* sorted(cases, key=place_key_func): stable, ascending
SortedByPlace(seq) ==
    IF seq = <<>> THEN <<>>
    ELSE LET front == SortedByPlace(SubSeq(seq, 1, Len(seq) - 1))
             x     == seq[Len(seq)]
             k     == Cardinality({i \in DOMAIN front :
                          TupleLeq(place_key_func(front[i]), place_key_func(x))})
         IN  InsertAt(front, k, x)

RECURSIVE SortedByOrderAscending(_)
SortedByOrderAscending(seq) ==
    IF seq = <<>> THEN <<>>
    ELSE LET front == SortedByOrderAscending(SubSeq(seq, 1, Len(seq) - 1))
             x     == seq[Len(seq)]
             k     == Cardinality({i \in DOMAIN front :
                          front[i].order_for_place <= x.order_for_place})
         IN  InsertAt(front, k, x)

RECURSIVE SortedByOrderDescending(_)
\* sorted(entries, key=order_func, reverse=True): stable, descending
SortedByOrderDescending(seq) ==
    IF seq = <<>> THEN <<>>
    ELSE LET front == SortedByOrderDescending(SubSeq(seq, 1, Len(seq) - 1))
             x     == seq[Len(seq)]
             k     == Cardinality({i \in DOMAIN front :
                          front[i].order_for_place >= x.order_for_place})
         IN  InsertAt(front, k, x)

RECURSIVE groupby(_)
\* itertools.groupby: the runs of consecutive rows with one key
groupby(seq) ==
    IF seq = <<>> THEN <<>>
    ELSE LET rest == groupby(Tail(seq))
         IN  IF rest # <<>> /\ place_key_func(rest[1][1]) = place_key_func(seq[1])
             THEN <<(<<seq[1]>> \o rest[1])>> \o Tail(rest)
             ELSE <<(<<seq[1]>>)>> \o rest

\* Caso.objects.filter(state=state, date__lt=date, place_type=place_type)
FilterCases(rows, state, date, place_type) ==
    SelectSeq(rows, LAMBDA r : r.state = state /\ r.date < date /\ r.place_type = place_type)

\* What the method returns: a list of rows, or for place_type "state" the one
\* row of a list that is not empty; the assert fails on a longer list
_get_latest_cases(rows, state, date, place_type) ==
    LET cases  == SortedByPlace(FilterCases(rows, state, date, place_type))
        groups == groupby(cases)
        result == [g \in 1..Len(groups) |-> SortedByOrderDescending(groups[g])[1]]
    IN  IF place_type = "state" /\ result # <<>>
        THEN IF Len(result) = 1
             THEN [returns |-> "row", rows |-> result]
             ELSE [returns |-> "AssertionError", rows |-> <<>>]
        ELSE [returns |-> "list", rows |-> result]

\* The rows of the caso table of the model: city rows of two cities of SP and
\* of a city of RJ, and state-level rows of SP, whose city is NULL
CasoDomain ==
    {Caso("SP", d, "city", "Santos", o) : d \in {1, 3}, o \in 0..2}
    \cup {Caso("SP", 2, "city", "Campinas", 0), Caso("RJ", 1, "city", "Santos", 0)}
    \cup {Caso("SP", d, "state", NoCity, o) : d \in {1, 3}, o \in 0..1}

SamePlace(a, b) == a.state = b.state /\ a.place_type = b.place_type /\ a.city = b.city

\* order_for_place numbers the rows of one place: no two share a number
CasoTables ==
    {t \in UNION {[1..n -> CasoDomain] : n \in 0..MaxCasos} :
        \A i, j \in DOMAIN t :
            (i # j /\ SamePlace(t[i], t[j])) => t[i].order_for_place # t[j].order_for_place}

InitStats ==
    /\ casos \in CasoTables
    /\ query = NoQuery
    /\ latest = NoResult
    /\ InitNoRates
    /\ InitWorkflow
    /\ cmp = NoCompare
    /\ cmpOut = <<>>

GetLatestCases(state, date, place_type) ==
    /\ query' = [state |-> state, date |-> date, place_type |-> place_type]
    /\ latest' = _get_latest_cases(casos, state, date, place_type)
    /\ UNCHANGED <<subs, last, imported, pub, cmp, cmpOut, casos, StepVars, RateVars>>

NextStats ==
    \E state \in {"SP", "RJ"}, date \in 1..4, place_type \in {"city", "state"} :
        GetLatestCases(state, date, place_type)

SpecStats == InitStats /\ [][NextStats]_vars

----------------------------------------------------------------------------
(* Covid19Stats.country_row and state_row *)

\* The rows of the caso table with is_last and place_type "state": at most
\* one per state; counts and population are small numbers, zero included
RateStates == {"SP", "RJ"}
Confirmed == 0..2
Deaths == 0..1
Populations == 0..2

StateCase(confirmed, deaths, population) ==
    [confirmed |-> confirmed, deaths |-> deaths,
     estimated_population_2019 |-> population]

StateCaseTables ==
    UNION {[S -> {StateCase(c, d, p) : c \in Confirmed, d \in Deaths, p \in Populations}] :
              S \in SUBSET RateStates}

RECURSIVE SumOver(_, _, _)
\* Sum(column) of the aggregate, over the rows of the states in S
SumOver(cases, S, column) ==
    IF S = {} THEN 0
    ELSE LET st == CHOOSE x \in S : TRUE
         IN  cases[st][column] + SumOver(cases, S \ {st}, column)

\* lines 91-104 and 118-131: the three rates, in the order of the dict
Rates(op, state, confirmed, deaths, population) ==
    IF population = 0 \/ confirmed = 0
    THEN Raised(op, state, "ZeroDivisionError")
    ELSE RateRow(op, state, "row",
                 Frac(100000 * confirmed, population),
                 Frac(100 * deaths, confirmed),
                 Frac(100 * deaths, population))

\* The aggregate of no rows is None, and None / None raises TypeError
country_row(cases) ==
    IF DOMAIN cases = {} THEN Raised("country_row", "BR", "TypeError")
    ELSE Rates("country_row", "BR",
               SumOver(cases, DOMAIN cases, "confirmed"),
               SumOver(cases, DOMAIN cases, "deaths"),
               SumOver(cases, DOMAIN cases, "estimated_population_2019"))

state_row(cases, state) ==
    IF state \notin DOMAIN cases THEN Raised("state_row", state, "AssertionError")
    ELSE Rates("state_row", state, cases[state].confirmed, cases[state].deaths,
               cases[state].estimated_population_2019)

InitRates ==
    /\ state_cases \in StateCaseTables
    /\ rate_row = NoRateRow
    /\ InitWorkflow
    /\ cmp = NoCompare
    /\ cmpOut = <<>>
    /\ casos = <<>>
    /\ query = NoQuery
    /\ latest = NoResult

CountryRow ==
    /\ rate_row' = country_row(state_cases)
    /\ UNCHANGED <<subs, last, imported, pub, cmp, cmpOut, casos, query, latest,
                   StepVars, state_cases>>

StateRow(state) ==
    /\ rate_row' = state_row(state_cases, state)
    /\ UNCHANGED <<subs, last, imported, pub, cmp, cmpOut, casos, query, latest,
                   StepVars, state_cases>>

NextRates ==
    \/ CountryRow
    \/ \E state \in RateStates : StateRow(state)

SpecRates == InitRates /\ [][NextRates]_vars

Next ==
    \/ \E u \in Users, k \in Keys, t \in WorkflowTables : Register(u, k[1], k[2], t)
    \/ \E s \in Ids(subs) : Reconcile(s)
    \/ \E s \in Ids(subs) : Publish(s)

Spec == Init /\ [][Next]_vars

----------------------------------------------------------------------------
(* The same operations on the rows alone, without the record of the calls *)

RegisterRow(user, state, date, table) ==
    /\ Upload(user, state, date, table)
    /\ UNCHANGED <<last, imported, pub, OtherVars>>

ReconcileRow(s) ==
    /\ subs' = link_to_matching_spreadsheet_peer(subs, subs[s]).db
    /\ UNCHANGED <<last, imported, pub, OtherVars>>

PublishRow(s) ==
    /\ subs' = import_to_final_dataset(subs, s).db
    /\ UNCHANGED <<last, imported, pub, OtherVars>>

NextRows ==
    \/ \E u \in Users, k \in Keys, t \in WorkflowTables : RegisterRow(u, k[1], k[2], t)
    \/ \E s \in Ids(subs) : ReconcileRow(s)
    \/ \E s \in Ids(subs) : PublishRow(s)

SpecRows == Init /\ [][NextRows]_vars

\* The uploads of the statement-by-statement specifications
StepUsers == {"ana", "bia"}
StepKeys == {<<"SP", 1>>}

NextImportSteps ==
    \/ \E u \in StepUsers, k \in StepKeys, t \in WorkflowTables : Register(u, k[1], k[2], t)
    \/ \E s \in Ids(subs) : Reconcile(s)
    \/ \E s \in Ids(subs) : PublishRefresh(s)
    \/ PublishSaveSelf
    \/ PublishSavePeer
    \/ PublishFail

SpecImportSteps == Init /\ [][NextImportSteps]_vars

----------------------------------------------------------------------------
(* The task that processes a new spreadsheet. The admin sends the signal   *)
(* of a new spreadsheet once its row is committed, and the task of its pk  *)
(* runs later, on a worker: after any number of other uploads and tasks.   *)

\* What a notification callable does when it is called
Callables == {"returns", "raises"}

Notification(event, id, errors) == [event |-> event, id |-> id, errors |-> errors]
notify_new_spreadsheet(id) == Notification("noSiblingsFound", id, <<>>)
notify_spreadsheet_mismatch(id, errors) == Notification("mismatchFound", id, errors)
notify_import_success(id) == Notification("importSucceeded", id, <<>>)

ImportRolledBack(db, id, notification_callable) ==
    LET r == import_to_final_dataset(db, id)
    IN  IF r.outcome = "ok" /\ notification_callable = "raises"
        THEN Outcome(db, "CallbackError", <<>>)
        ELSE r

\* import_to_final_dataset(notification_callable): lines 264-266 run after the
\* two saves, and what the callable raises leaves the method with the rows
\* as saved
import_to_final_dataset_notifying(db, id, notification_callable) ==
    LET r == import_to_final_dataset(db, id)
    IN  IF r.outcome = "ok" /\ notification_callable = "raises"
        THEN Outcome(r.db, "CallbackError", <<>>)
        ELSE r

Call(op, result) == [op |-> op, result |-> result]
TaskResult(db, calls, sent) == [db |-> db, calls |-> calls, sent |-> sent]

TaskPublishingAlways(db, id, notification_callable) ==
    IF db[id].cancelled THEN TaskResult(db, <<>>, <<>>)
    ELSE
    LET r    == link_to_matching_spreadsheet_peer(db, db[id])
        link == Call("link_to_matching_spreadsheet_peer", r.outcome)
        p    == import_to_final_dataset_notifying(r.db, id, notification_callable)
    IN  TaskResult(p.db, <<link, Call("import_to_final_dataset", p.outcome)>>,
                   IF p.outcome = "ok" THEN <<notify_import_success(id)>> ELSE <<>>)

\* process_new_spreadsheet_task(pk), with what notify_import_success does
\* when called. A cancelled spreadsheet is not processed.
process_new_spreadsheet_task(db, id, notification_callable) ==
    IF db[id].cancelled THEN TaskResult(db, <<>>, <<>>)
    ELSE
    LET r    == link_to_matching_spreadsheet_peer(db, db[id])
        link == Call("link_to_matching_spreadsheet_peer", r.outcome)
    IN  CASE r.outcome = "OnlyOneSpreadsheetException" ->
                TaskResult(r.db, <<link>>, <<notify_new_spreadsheet(id)>>)
          [] r.outcome = "mismatched" ->
                TaskResult(r.db, <<link>>, <<notify_spreadsheet_mismatch(id, r.errors)>>)
          [] r.outcome = "matched" ->
                LET p == import_to_final_dataset_notifying(r.db, id, notification_callable)
                IN  TaskResult(p.db, <<link, Call("import_to_final_dataset", p.outcome)>>,
                               IF p.outcome = "ok" THEN <<notify_import_success(id)>> ELSE <<>>)
          [] OTHER -> TaskResult(r.db, <<link>>, <<>>)

\* The tables uploaded in SpecTask: the second lacks the city row, so that
\* the errors of a comparison name the two owners
TableThree == <<Row("state", NoCity, 35, 3, 1)>>
TaskTables == {TableOne, TableThree}
TaskKeys == {<<"SP", 1>>}

\* save_model of a new spreadsheet: the row is stored and its task enqueued
Submit(user, state, date, table) ==
    /\ Upload(user, state, date, table)
    /\ queue' = queue \cup {Len(subs) + 1}
    /\ task' = NoTask
    /\ UNCHANGED <<last, imported, pub, PureVars, uploads, rec>>

ProcessNewSpreadsheetTask(s, notification_callable) ==
    LET r == process_new_spreadsheet_task(subs, s, notification_callable)
    IN  /\ s \in queue
        /\ subs' = r.db
        /\ queue' = queue \ {s}
        /\ task' = [id |-> s, calls |-> r.calls, sent |-> r.sent]
        /\ UNCHANGED <<last, imported, pub, PureVars, uploads, rec>>

NextTask ==
    \/ \E u \in Users, k \in TaskKeys, t \in TaskTables : Submit(u, k[1], k[2], t)
    \/ \E s \in Ids(subs), c \in Callables : ProcessNewSpreadsheetTask(s, c)

SpecTask == Init /\ [][NextTask]_vars

----------------------------------------------------------------------------
(* Four owners of one state and date: the reconciliations and imports of   *)
(* spreadsheets that are not cancelled, each run to its end, in any order  *)

MaxPeers == 4
PeerUsers == {"ana", "bia", "caio", "davi"}

RegisterPeer(user, state, date, table) ==
    /\ Len(subs) < MaxPeers
    /\ subs' = Registered(subs, user, state, date, table)
    /\ UNCHANGED <<last, imported, pub, OtherVars>>

NextPeers ==
    \/ \E u \in PeerUsers, k \in TaskKeys, t \in WorkflowTables : RegisterPeer(u, k[1], k[2], t)
    \/ \E s \in Ids(subs) : ~subs[s].cancelled /\ ReconcileRow(s)
    \/ \E s \in Ids(subs) : ~subs[s].cancelled /\ PublishRow(s)

SpecPeers == Init /\ [][NextPeers]_vars

----------------------------------------------------------------------------
(* Uploads statement by statement: cancel_older_versions is one UPDATE and *)
(* the INSERT of the new row another, and requests of one owner can        *)
(* overlap                                                                 *)

\* lines 39-40: the UPDATE of the older versions; the row is yet to be stored
UploadCancel(user, state, date, table) ==
    LET new == NewSpreadsheet(user, state, date, table)
    IN  /\ Len(subs) + Len(uploads) < MaxSubs
        /\ subs' = cancel_older_versions(subs, new)
        /\ uploads' = Append(uploads, new)
        /\ UNCHANGED <<last, imported, pub, PureVars, queue, task, rec>>

\* the INSERT of the row of the i-th upload under way
UploadInsert(i) ==
    /\ i \in DOMAIN uploads
    /\ subs' = Insert(subs, uploads[i])
    /\ uploads' = SubSeq(uploads, 1, i - 1) \o SubSeq(uploads, i + 1, Len(uploads))
    /\ UNCHANGED <<last, imported, pub, PureVars, queue, task, rec>>

NextUploadSteps ==
    \/ \E u \in Users, k \in Keys, t \in WorkflowTables : UploadCancel(u, k[1], k[2], t)
    \/ \E i \in DOMAIN uploads : UploadInsert(i)

SpecUploadSteps == Init /\ [][NextUploadSteps]_vars

----------------------------------------------------------------------------
(* link_to_matching_spreadsheet_peer statement by statement: the queries   *)
(* and every save() are statements of their own, and uploads and imports   *)
(* run between them                                                        *)

Linking(pc, self, sibs, i, errors) ==
    [pc |-> pc, self |-> self, sibs |-> sibs, i |-> i, errors |-> errors]

\* The call has returned or raised
Ended(outcome, self, errors) == Linking(outcome, self, <<>>, 0, errors)

LinkEnded ==
    rec.pc \in {"idle", "matched", "mismatched", "IntegrityError",
                "OnlyOneSpreadsheetException"}

\* lines 231-232: self.sibilings.exists()
LinkStart(s) ==
    /\ LinkEnded
    /\ rec' = IF sibilings(subs, subs[s]) = <<>>
              THEN Ended("OnlyOneSpreadsheetException", subs[s], <<>>)
              ELSE Linking("exists", subs[s], <<>>, 0, <<>>)
    /\ UNCHANGED <<subs, last, imported, pub, PureVars, queue, task, uploads>>

\* line 235: the query of the for loop loads the siblings
LinkQuery ==
    /\ rec.pc = "exists"
    /\ LET ids == sibilings(subs, rec.self)
       IN  rec' = Linking("loop", rec.self, [i \in 1..Len(ids) |-> subs[ids[i]]], 1, <<>>)
    /\ UNCHANGED <<subs, last, imported, pub, PureVars, queue, task, uploads>>

\* lines 236-244: the comparison with the sibling at hand and the first save
\* that follows it: self's on a match, the sibling's on a mismatch
LinkCompare ==
    /\ rec.pc = "loop"
    /\ IF rec.i > Len(rec.sibs)
       THEN /\ rec' = Ended("mismatched", rec.self, rec.errors)
            /\ UNCHANGED subs
       ELSE LET sib  == rec.sibs[rec.i]
                errs == compare_to_spreadsheet(rec.self, sib)
            IN  IF errs = <<>>
                THEN LET self1 == Linked(rec.self, sib.id)
                     IN  IF UniqueViolation(subs, self1)
                         THEN /\ rec' = Ended("IntegrityError", self1, <<>>)
                              /\ UNCHANGED subs
                         ELSE /\ rec' = [rec EXCEPT !.pc = "link_sib", !.self = self1]
                              /\ subs' = Save(subs, self1)
                ELSE /\ rec' = [rec EXCEPT !.pc = "save_self", !.errors = errs,
                                           !.self = SetErrors(rec.self, errs)]
                     /\ subs' = Save(subs, SetErrors(sib, errs))
    /\ UNCHANGED <<last, imported, pub, PureVars, queue, task, uploads>>

\* lines 239-240: sibiling_spreadsheet.link_to(self), then the return
LinkSibiling ==
    /\ rec.pc = "link_sib"
    /\ LET sib1 == Linked(rec.sibs[rec.i], rec.self.id)
       IN  IF UniqueViolation(subs, sib1)
           THEN /\ rec' = Ended("IntegrityError", rec.self, <<>>)
                /\ UNCHANGED subs
           ELSE /\ rec' = Ended("matched", rec.self, <<>>)
                /\ subs' = Save(subs, sib1)
    /\ UNCHANGED <<last, imported, pub, PureVars, queue, task, uploads>>

\* line 245: self.save() after a mismatch, then the next sibling
LinkSaveSelf ==
    /\ rec.pc = "save_self"
    /\ subs' = Save(subs, rec.self)
    /\ rec' = [rec EXCEPT !.pc = "loop", !.i = rec.i + 1]
    /\ UNCHANGED <<last, imported, pub, PureVars, queue, task, uploads>>

NextLinkSteps ==
    \/ \E u \in Users, k \in StepKeys, t \in WorkflowTables : RegisterRow(u, k[1], k[2], t)
    \/ \E s \in Ids(subs) : ~subs[s].cancelled /\ LinkStart(s)
    \/ LinkQuery
    \/ LinkCompare
    \/ LinkSibiling
    \/ LinkSaveSelf
    \/ \E s \in Ids(subs) : PublishRow(s)

SpecLinkSteps == Init /\ [][NextLinkSteps]_vars

----------------------------------------------------------------------------
(* Versioning *)

SameKey(a, b) == a.user = b.user /\ a.state = b.state /\ a.date = b.date

Versions(i) == {j \in Ids(subs) : SameKey(subs[j], subs[i])}

OneActivePerKey ==
    \A i \in Ids(subs) :
        {j \in Versions(i) : ~subs[j].cancelled}
            = {CHOOSE m \in Versions(i) : \A j \in Versions(i) : j <= m}

OtherKeysKeepCancelled ==
    Len(subs') = Len(subs) + 1 =>
        \A i \in Ids(subs) :
            ~SameKey(subs[i], subs'[Len(subs')]) => subs'[i].cancelled = subs[i].cancelled

\* C1: after any number of sequential registrations every key that has a
\* submission has exactly one active submission, the most recently created
\* one, and a registration leaves the cancelled flag of the submissions of
\* every other key as it was.
C1_OneActiveVersionPerKey ==
    /\ []OneActivePerKey
    /\ [][OtherKeysKeepCancelled]_vars

\* Two versions of one key, registered after an active submission of the
\* same owner for another date
C1_Witness ==
    \E o, i, j \in Ids(subs) :
        /\ o < i /\ i < j
        /\ SameKey(subs[i], subs[j])
        /\ subs[o].user = subs[j].user /\ ~SameKey(subs[o], subs[j])
        /\ subs[i].cancelled /\ ~subs[j].cancelled /\ ~subs[o].cancelled

----------------------------------------------------------------------------
(* The peer link *)

\* C2: peer_review is symmetric: whenever A.peer_review = B, B.peer_review = A.
C2_PeerLinkSymmetric ==
    \A a \in Ids(subs) :
        subs[a].peer_review # None => subs[subs[a].peer_review].peer_review = a

\* C3: a deployed spreadsheet keeps its status, its errors and its table in
\* every later step.
C3_DeployedIsTerminal ==
    [][\A s \in Ids(subs) :
          subs[s].status = DEPLOYED =>
              /\ subs'[s].status = DEPLOYED
              /\ subs'[s].errors = subs[s].errors
              /\ subs'[s].table = subs[s].table]_vars

----------------------------------------------------------------------------
(* Publishing *)

PreconditionViolated(obj) ==
    \/ obj.status # UPLOADED
    \/ obj.cancelled
    \/ obj.peer_review = None

\* C4: import_to_final_dataset called on a spreadsheet that is not uploaded,
\* or is cancelled, or has no peer, ends with the ValueError and writes
\* nothing: every row is as before the call.
C4_RejectedPublishWritesNothing ==
    \A s \in Ids(subs) :
        PreconditionViolated(subs[s]) =>
            import_to_final_dataset(subs, s) = Outcome(subs, "ValueError", <<>>)

\* Each precondition is violated alone by some row: one uploaded and active
\* without a peer, one linked and uploaded but cancelled, one linked and active
\* but deployed; the call on each of them is rejected
C4_Witness ==
    \E a, b, c \in Ids(subs) :
        /\ subs[a].status = UPLOADED /\ ~subs[a].cancelled /\ subs[a].peer_review = None
        /\ subs[b].status = UPLOADED /\ subs[b].cancelled /\ subs[b].peer_review # None
        /\ subs[c].status = DEPLOYED /\ ~subs[c].cancelled /\ subs[c].peer_review # None
        /\ \A s \in {a, b, c} : import_to_final_dataset(subs, s).outcome = "ValueError"

PublishedPairDeployed ==
    (last.op = "publish" /\ last.result = "ok") =>
        /\ subs[last.id].status = DEPLOYED
        /\ subs[subs[last.id].peer_review].status = DEPLOYED

RepeatedPublishRejected ==
    \A s \in Ids(subs) :
        (s \in imported /\ last'.op = "publish" /\ last'.id = s) =>
            last'.result = "ValueError"

\* C5: right after a successful publish of A, A and its peer are deployed,
\* and every later publish of A is rejected with the ValueError.
C5_PublishOnce ==
    /\ []PublishedPairDeployed
    /\ [][RepeatedPublishRejected]_vars

\* C6: publish moves both rows or neither: once a publish call has ended,
\* by running to its end or by being cut short, it has written both rows of
\* the pair or neither.
C6_PublishAtomic ==
    pub.pc \in {"done", "failed"} =>
        (pub.saved = {} \/ pub.saved = pub.pair)

----------------------------------------------------------------------------
(* Comparison *)

Compared == cmpOut # <<>>
SameSheetKey == cmp.self.state = cmp.other.state /\ cmp.self.date = cmp.other.date
Range(seq) == {seq[i] : i \in DOMAIN seq}
CityRows(table) == {r \in Range(table) : r.place_type = "city"}
HasStateRow(table) == \E r \in Range(table) : r.place_type = "state"

\* The same discrepancy, told from the other side
Swapped(e) ==
    CASE e.kind = "only_in_imported" ->
            ExtraOtherError(e.city, e.other_user, e.user)
      [] e.kind = "only_in_comparison" ->
            ExtraSelfError(e.city, e.other_user, e.user)
      [] e.kind = "entries_differ" ->
            CountError(e.other_user, e.user, e.self_len, e.other_len)
      [] OTHER -> e

SameDiscrepancies(ab, ba) == {Swapped(e) : e \in Range(ab)} = Range(ba)

\* C7: compare(A, B) is empty exactly if compare(B, A) is, and when both are
\* not they hold the same discrepancies with the owners in swapped roles.
C7_CompareSymmetric ==
    Compared =>
        /\ (cmpOut[1] = <<>> <=> cmpOut[2] = <<>>)
        /\ (cmpOut[1] # <<>> /\ cmpOut[2] # <<>> => SameDiscrepancies(cmpOut[1], cmpOut[2]))

\* The row of b that stands for the same place as the row a
Corresponds(a, b) ==
    IF a.place_type = "state" THEN b.place_type = "state"
    ELSE b.place_type = "city" /\ b.city_ibge_code = a.city_ibge_code

SameCounts(a, b) == a.confirmed = b.confirmed /\ a.deaths = b.deaths

Agree(A, B) ==
    /\ A.state = B.state /\ A.date = B.date
    /\ {r.city_ibge_code : r \in CityRows(A.table)} = {r.city_ibge_code : r \in CityRows(B.table)}
    /\ Len(A.table) = Len(B.table)
    /\ \A a \in Range(A.table) :
          \E b \in Range(B.table) : Corresponds(a, b) /\ SameCounts(a, b)

\* C8: compare(A, B) is empty exactly when A and B agree (same state and
\* date, same cities, same number of rows, every row of A with the counts of
\* its row of B); equal tables of one state and date compare to the empty
\* list; and a place both have with different counts gets a values_differ
\* error that names it ("Total" for the state-level row).
C8_CompareEmptyIffAgree ==
    Compared =>
        /\ (cmpOut[1] = <<>> <=> Agree(cmp.self, cmp.other))
        /\ (SameSheetKey /\ cmp.self.table = cmp.other.table => cmpOut[1] = <<>>)
        /\ (SameSheetKey =>
               \A a \in Range(cmp.self.table), b \in Range(cmp.other.table) :
                   (Corresponds(a, b) /\ ~SameCounts(a, b)) =>
                       ValueError(IF a.place_type = "state" THEN "Total" ELSE a.city)
                           \in Range(cmpOut[1]))

\* Two tables with the state-level row, the undefined row and a city, equal
\* throughout, were compared
C8_Witness ==
    /\ Compared /\ cmpOut[1] = <<>>
    /\ SameSheetKey
    /\ Len(cmp.self.table) >= 3
    /\ HasStateRow(cmp.self.table)

Naming(errors, city) == {i \in DOMAIN errors : errors[i].city = city}

\* C9: for a city in A's city rows and not in B's, of one state and date,
\* compare(A, B) has exactly one error that names the city, saying it is only
\* in the imported sheet (A's owner) and not in the comparison one (B's
\* owner); compare(B, A) has exactly one, saying it is only in the comparison
\* sheet; neither list has an entries_differ error, nor a values_differ
\* error for the city.
C9_CityOnlyInOneSheet ==
    (Compared /\ SameSheetKey) =>
        \A c \in table_data_by_city(cmp.self.table) \ table_data_by_city(cmp.other.table) :
            /\ Cardinality(Naming(cmpOut[1], c)) = 1
            /\ ExtraSelfError(c, cmp.self.user, cmp.other.user) \in Range(cmpOut[1])
            /\ Cardinality(Naming(cmpOut[2], c)) = 1
            /\ ExtraOtherError(c, cmp.other.user, cmp.self.user) \in Range(cmpOut[2])
            /\ \A e \in Range(cmpOut[1]) \cup Range(cmpOut[2]) : e.kind # "entries_differ"

\* A has a city B lacks, B has more rows than A, and they differ on the total
C9_Witness ==
    /\ Compared /\ SameSheetKey
    /\ "Santos" \in table_data_by_city(cmp.self.table) \ table_data_by_city(cmp.other.table)
    /\ Len(cmp.self.table) < Len(cmp.other.table)
    /\ ValueError("Total") \in Range(cmpOut[1])

----------------------------------------------------------------------------
(* Most recent entries *)

Queried == query # NoQuery

\* The rows of the queried state and place type dated before the queried date
Eligible ==
    {r \in Range(casos) :
        r.state = query.state /\ r.place_type = query.place_type /\ r.date < query.date}

\* C10: the result holds exactly one row for every place that has a row of
\* the queried state and place type dated strictly before the queried date,
\* and no other row; the row of a place is the one with the greatest
\* order_for_place among the rows of the place before that date.
C10_MostRecentEntries ==
    Queried =>
        /\ latest.returns # "AssertionError"
        /\ Range(latest.rows) \subseteq Eligible
        /\ Len(latest.rows) = Cardinality({r.city : r \in Eligible})
        /\ \A r \in Eligible :
              \E i \in DOMAIN latest.rows :
                  /\ latest.rows[i].city = r.city
                  /\ latest.rows[i].order_for_place >= r.order_for_place

\* A city with a row three days before the date, two rows of the day before
\* with order_for_place 1 and 2, queried for: the result is the row numbered 2
C10_Witness ==
    /\ Queried
    /\ query = [state |-> "SP", date |-> 4, place_type |-> "city"]
    /\ Range(casos) = {Caso("SP", 1, "city", "Santos", 0), Caso("SP", 3, "city", "Santos", 1),
                       Caso("SP", 3, "city", "Santos", 2)}
    /\ latest.rows = <<Caso("SP", 3, "city", "Santos", 2)>>

----------------------------------------------------------------------------
(* Processing a new spreadsheet *)

\* The sibling candidates of a spreadsheet: the active spreadsheets of its
\* state and date that await review, other than itself and not of its owner
Candidates(db, S) ==
    {i \in Ids(db) :
        /\ ~db[i].cancelled
        /\ db[i].state = S.state /\ db[i].date = S.date
        /\ db[i].status \in {UPLOADED, CHECK_FAILED}
        /\ i # S.id
        /\ db[i].user # S.user}

\* The step runs the task of spreadsheet s
TaskRan(s) == s \in queue /\ queue' = queue \ {s}

CallsOf(calls, op) == {i \in DOMAIN calls : calls[i].op = op}

\* C11: the task of a spreadsheet without sibling candidates gets the
\* OnlyOneSpreadsheetException from the one reconciliation it runs and writes
\* nothing: every row is as before, import_to_final_dataset is not called,
\* and exactly one notification is sent, that of a new spreadsheet without
\* siblings.
C11_NoSiblingsOnlyNotifies ==
    [][\A s \in Ids(subs) :
          (TaskRan(s) /\ ~subs[s].cancelled /\ Candidates(subs, subs[s]) = {}) =>
              /\ subs' = subs
              /\ task'.calls = <<Call("link_to_matching_spreadsheet_peer",
                                      "OnlyOneSpreadsheetException")>>
              /\ task'.sent = <<notify_new_spreadsheet(s)>>]_vars

\* The task of a spreadsheet found nothing to compare with although another
\* owner has a spreadsheet of its state and date, deployed by then
C11_Witness ==
    /\ task.id # None
    /\ task.sent = <<notify_new_spreadsheet(task.id)>>
    /\ \E i \in Ids(subs) :
          /\ subs[i].user # subs[task.id].user
          /\ subs[i].state = subs[task.id].state /\ subs[i].date = subs[task.id].date
          /\ subs[i].status = DEPLOYED

\* C12: the task of a spreadsheet that is not cancelled runs the
\* reconciliation once; it calls import_to_final_dataset once exactly if the
\* reconciliation matched, and never more, and the import-success notification
\* is sent only by that call; if the reconciliation mismatched, exactly one
\* notification is sent, the mismatch one with the errors the reconciliation
\* returned.
C12_TaskDispatchesOnOutcome ==
    [][\A s \in Ids(subs) :
          (TaskRan(s) /\ ~subs[s].cancelled) =>
              LET r       == link_to_matching_spreadsheet_peer(subs, subs[s])
                  links   == CallsOf(task'.calls, "link_to_matching_spreadsheet_peer")
                  imports == CallsOf(task'.calls, "import_to_final_dataset")
              IN  /\ Cardinality(links) = 1
                  /\ \A i \in links : task'.calls[i].result = r.outcome
                  /\ Cardinality(imports) = (IF r.outcome = "matched" THEN 1 ELSE 0)
                  /\ (notify_import_success(s) \in Range(task'.sent) =>
                         \E i \in imports : task'.calls[i].result = "ok")
                  /\ (r.outcome = "mismatched" =>
                         /\ r.errors # <<>>
                         /\ task'.sent = <<notify_spreadsheet_mismatch(s, r.errors)>>)]_vars

\* Both dispatches happened: a task that mismatched, then a task that matched
\* and imported
C12_Witness ==
    /\ task.id # None
    /\ Len(task.calls) = 2
    /\ task.calls[2] = Call("import_to_final_dataset", "ok")
    /\ task.sent = <<notify_import_success(task.id)>>
    /\ \E i \in Ids(subs) : subs[i].status = CHECK_FAILED /\ subs[i].errors # <<>>

\* C13: U uploads for a state and date: the row stays uploaded, active and
\* without a peer. U uploads again for them: the first row is cancelled, the
\* second is active. V then uploads the table of U's second row for the same
\* state and date: however the tasks are ordered, the first row stays
\* cancelled, uploaded and without a peer, and once the task of V's row has
\* run V's row and U's second row are each other's peers and deployed.
C13_ScenarioTwoVersionsThenPeer ==
    /\ Len(subs) = 1 =>
          /\ ~subs[1].cancelled
          /\ subs[1].status = UPLOADED /\ subs[1].peer_review = None
    /\ (Len(subs) = 2 /\ SameKey(subs[1], subs[2])) =>
          /\ subs[1].cancelled /\ ~subs[2].cancelled
          /\ \A i \in {1, 2} : subs[i].status = UPLOADED /\ subs[i].peer_review = None
    /\ (/\ Len(subs) = 3 /\ SameKey(subs[1], subs[2])
        /\ subs[3].user # subs[2].user
        /\ subs[3].state = subs[2].state /\ subs[3].date = subs[2].date
        /\ subs[3].table = subs[2].table) =>
          /\ subs[1].cancelled
          /\ subs[1].status = UPLOADED /\ subs[1].peer_review = None
          /\ ~subs[2].cancelled /\ ~subs[3].cancelled
          /\ 3 \notin queue =>
                /\ subs[3].peer_review = 2 /\ subs[2].peer_review = 3
                /\ subs[3].status = DEPLOYED /\ subs[2].status = DEPLOYED

\* The scenario has run to its end, with a first version equal to the second
C13_Witness ==
    /\ Len(subs) = 3 /\ SameKey(subs[1], subs[2])
    /\ subs[3].user # subs[2].user
    /\ subs[3].table = subs[2].table /\ subs[1].table = subs[2].table
    /\ queue = {}
    /\ task.id = 3 /\ task.sent = <<notify_import_success(3)>>

\* C14: when the notification callable raises in the import the task runs,
\* the rows are those the two saves of the import left: the spreadsheet and
\* its peer are deployed, and nothing of the reconciliation or the import is
\* undone.
C14_CallbackFailureKeepsPublish ==
    [][\A s \in Ids(subs) :
          (/\ TaskRan(s)
           /\ Call("import_to_final_dataset", "CallbackError") \in Range(task'.calls)) =>
              LET linked == link_to_matching_spreadsheet_peer(subs, subs[s]).db
              IN  /\ subs' = import_to_final_dataset(linked, s).db
                  /\ subs'[s].status = DEPLOYED
                  /\ subs'[s].peer_review # None
                  /\ subs'[subs'[s].peer_review].status = DEPLOYED]_vars

\* The callable raised in the last task, and no notification was sent
C14_Witness ==
    /\ task.id # None
    /\ Call("import_to_final_dataset", "CallbackError") \in Range(task.calls)
    /\ task.sent = <<>>
    /\ subs[task.id].status = DEPLOYED

----------------------------------------------------------------------------
(* Reconciliation *)

\* C15: the siblings of a spreadsheet are exactly its sibling candidates,
\* none of them of its owner, the most recently created first.
C15_SiblingCandidates ==
    \A s \in Ids(subs) :
        LET sibs == sibilings(subs, subs[s])
        IN  /\ Range(sibs) = Candidates(subs, subs[s])
            /\ \A i, j \in DOMAIN sibs : i < j => sibs[i] > sibs[j]

\* The reconciliation of s, run in the state at hand
Reconciliation(s) == link_to_matching_spreadsheet_peer(subs, subs[s])

\* C16: when the reconciliation of S matches, S's new peer C is the most
\* recently created candidate that compares equal to S, C's peer is S, and
\* both are uploaded with no errors.
C16_MatchLinksFirstEqualCandidate ==
    \A s \in Ids(subs) :
        (~subs[s].cancelled /\ Reconciliation(s).outcome = "matched") =>
            LET db == Reconciliation(s).db
                c  == db[s].peer_review
            IN  /\ c \in Candidates(subs, subs[s])
                /\ compare_to_spreadsheet(subs[s], subs[c]) = <<>>
                /\ \A d \in Candidates(subs, subs[s]) :
                      d > c => compare_to_spreadsheet(subs[s], subs[d]) # <<>>
                /\ db[c].peer_review = s
                /\ db[s].status = UPLOADED /\ db[c].status = UPLOADED
                /\ db[s].errors = <<>> /\ db[c].errors = <<>>

\* S and the candidate it matches both failed a check before, and a more
\* recent candidate mismatches in the same call
C16_Witness ==
    \E s \in Ids(subs) :
        /\ ~subs[s].cancelled /\ Reconciliation(s).outcome = "matched"
        /\ subs[s].status = CHECK_FAILED /\ subs[s].errors # <<>>
        /\ LET c == Reconciliation(s).db[s].peer_review
           IN  /\ subs[c].status = CHECK_FAILED /\ subs[c].errors # <<>>
               /\ \E d \in Candidates(subs, subs[s]) : d > c

\* The oldest of the candidates of s
Oldest(s) ==
    CHOOSE c \in Candidates(subs, subs[s]) : \A d \in Candidates(subs, subs[s]) : c <= d

\* C17: when the reconciliation of S finds no match, it returns the errors of
\* the comparison of S with the oldest candidate, which are not empty; S has
\* failed the check with those errors, and every candidate has failed the
\* check with the errors of its own comparison with S.
C17_MismatchKeepsLastErrors ==
    \A s \in Ids(subs) :
        (~subs[s].cancelled /\ Reconciliation(s).outcome = "mismatched") =>
            LET r == Reconciliation(s)
            IN  /\ Candidates(subs, subs[s]) # {}
                /\ r.errors # <<>>
                /\ r.errors = compare_to_spreadsheet(subs[s], subs[Oldest(s)])
                /\ r.db[s].status = CHECK_FAILED
                /\ r.db[s].errors = r.errors
                /\ \A c \in Candidates(subs, subs[s]) :
                      /\ r.db[c].status = CHECK_FAILED
                      /\ r.db[c].errors = compare_to_spreadsheet(subs[s], subs[c])

\* S mismatches two candidates, with different errors
C17_Witness ==
    \E s \in Ids(subs) :
        /\ ~subs[s].cancelled /\ Reconciliation(s).outcome = "mismatched"
        /\ \E c, d \in Candidates(subs, subs[s]) :
              compare_to_spreadsheet(subs[s], subs[c]) # compare_to_spreadsheet(subs[s], subs[d])

\* C18: a spreadsheet that becomes deployed was uploaded, with no errors, in
\* the state right before: no step takes a spreadsheet that failed its check
\* to deployed, be it the one imported or its peer.
C18_NoCheckFailedToDeployed ==
    [][\A s \in Ids(subs) :
          (subs[s].status # DEPLOYED /\ subs'[s].status = DEPLOYED) =>
              (subs[s].status = UPLOADED /\ subs[s].errors = <<>>)]_vars

----------------------------------------------------------------------------
(* Concurrency *)

\* C19: once the uploads under way have stored their rows, no owner has two
\* active spreadsheets of one state and date.
C19_ConcurrentUploadsOneActive ==
    uploads = <<>> =>
        \A i, j \in Ids(subs) :
            (SameKey(subs[i], subs[j]) /\ ~subs[i].cancelled /\ ~subs[j].cancelled) => i = j

\* C20: the link of a pair is written in one step: a step that sets the peer
\* of a spreadsheet A to C leaves C with peer A, and both uploaded.
C20_PairLinkedInOneStep ==
    [][\A a \in Ids(subs) :
          subs'[a].peer_review # subs[a].peer_review =>
              LET c == subs'[a].peer_review
              IN  /\ subs'[c].peer_review = a
                  /\ subs'[a].status = UPLOADED /\ subs'[c].status = UPLOADED]_vars

----------------------------------------------------------------------------
(* Rates *)

\* The sums the last call computed its rates from
RateInput(column) ==
    IF rate_row.op = "country_row"
    THEN SumOver(state_cases, DOMAIN state_cases, column)
    ELSE state_cases[rate_row.state][column]

\* A call was made and found the rows it reads
RowsFound ==
    /\ rate_row.op # "none"
    /\ rate_row.returns \notin {"TypeError", "AssertionError"}

SameFrac(a, b) == a.num * b.den = b.num * a.den

\* C21: country_row and state_row return a row for every input: with a
\* population of 0 or a confirmed count of 0 no arithmetic fault is raised.
C21_RatesDefinedOnZero ==
    (/\ RowsFound
     /\ (RateInput("estimated_population_2019") = 0 \/ RateInput("confirmed") = 0)) =>
        rate_row.returns = "row"

\* C22: in the row returned, confirmed_per_100k_inhabitants is
\* 100000 * confirmed / population, deaths_per_100k_inhabitants is
\* 100000 * deaths / population and death_rate_percent is
\* 100 * deaths / confirmed.
C22_RatesOnOneScale ==
    (RowsFound /\ rate_row.returns = "row") =>
        /\ SameFrac(rate_row.confirmed_per_100k_inhabitants,
                    Frac(100000 * RateInput("confirmed"), RateInput("estimated_population_2019")))
        /\ SameFrac(rate_row.deaths_per_100k_inhabitants,
                    Frac(100000 * RateInput("deaths"), RateInput("estimated_population_2019")))
        /\ SameFrac(rate_row.death_rate_percent,
                    Frac(100 * RateInput("deaths"), RateInput("confirmed")))

----------------------------------------------------------------------------
(* Implicit invariants *)

\* C23: no spreadsheet is both deployed and cancelled.
C23_NoDeployedCancelled ==
    \A s \in Ids(subs) : ~(subs[s].status = DEPLOYED /\ subs[s].cancelled)

\* C24: two spreadsheets linked as peers are of the same state and date and
\* of different owners.
C24_PeersOfDifferentOwners ==
    \A a \in Ids(subs) :
        subs[a].peer_review # None =>
            LET b == subs[a].peer_review
            IN  /\ subs[a].state = subs[b].state
                /\ subs[a].date = subs[b].date
                /\ subs[a].user # subs[b].user

====
